---- MODULE Spec2Model ----
(***************************************************************************)
(* Bevyroids simulation core: the per-frame system schedule of main.rs     *)
(* (input, weapon/thrust, fixed-timestep physics, boundary handling,       *)
(* presentation) and the generic collision detector of collision.rs.       *)
(*                                                                         *)
(* Numbers are integers.  Time is counted in units of 1/240 s, so that     *)
(* TIME_STEP (1/120 s) is 2 units, the weapon cooldown (100 ms) is 24      *)
(* units and the spawner interval (0.5 s) is 120 units.  Angles are        *)
(* counted in quarter turns, so that cos and sin are exact.                *)
(***************************************************************************)
EXTENDS Integers, Sequences, FiniteSets, TLC

VARIABLES
    ents,      \* the World: entity id -> its components (live entities only)
    cmds,      \* Commands queued by systems, applied when the stage ends a pass
    hits,      \* Events<HitEvent<A,B>>: [cur: sent this frame, prev: last frame]
    window,    \* WindowDescriptor: <<width, height>>
    keys,      \* Input<KeyCode>: the keys pressed during this frame
    delta,     \* Time::delta of this frame
    acc,       \* FixedTimestep accumulators: [physics, spawn]
    toRun,     \* systems whose run criteria said yes for the current pass
    done,      \* systems that have run in the current pass
    pass,      \* 0 between frames, k in the k-th pass of the stage loop
    ran,       \* history: the systems run so far in this frame, in any pass
    frame,     \* history: the frames begun so far
    thrusts,   \* history: thrust applications since the last physics tick
    fired,     \* history: projectiles spawned since the start
    clock,     \* history: time the weapon timer has been ticked with
    held,      \* history: the fire key was down in every frame so far
    longest,   \* history: the longest frame so far
    before,    \* history: the World a step or a flight began with
    phase      \* position of the driver of the specification in use

vars == <<ents, cmds, hits, window, keys, delta, acc, toRun, done, pass, ran, frame,
          thrusts, fired, clock, held, longest, before, phase>>

schedVars == <<keys, delta, acc, toRun, done, pass, ran, frame, thrusts>>
weaponHist == <<fired, clock, held, longest>>

(***************************************************************************)
(* Vectors and entities                                                    *)
(***************************************************************************)
Vec2(x, y) == <<x, y>>
VAdd(a, b) == <<a[1] + b[1], a[2] + b[2]>>
VSub(a, b) == <<a[1] - b[1], a[2] - b[2]>>
VScale(a, k) == <<a[1] * k, a[2] * k>>
length_squared(v) == v[1] * v[1] + v[2] * v[2]

Abs(n) == IF n < 0 THEN -n ELSE n
Min(S) == CHOOSE m \in S : \A n \in S : m <= n
Max(S) == CHOOSE m \in S : \A n \in S : m >= n

RECURSIVE Ordered(_)
Ordered(S) == IF S = {} THEN <<>> ELSE <<Min(S)>> \o Ordered(S \ {Min(S)})

Count(s, x) == Cardinality({i \in DOMAIN s : s[i] = x})
Range(s) == {s[i] : i \in DOMAIN s}

\* Timer: elapsed time, duration, finished (in the last tick), times finished
\* in the last tick; every timer of the program is repeating.
Timer_new(duration) ==
    [elapsed |-> 0, duration |-> duration, finished |-> FALSE, times |-> 0]

\* An entity with no component: every field has its Default value.
Blank ==
    [comps |-> {}, pos |-> Vec2(0, 0), rot |-> 0, radius |-> 0,
     vel |-> Vec2(0, 0), limit |-> 0, damping |-> <<1, 1>>, force |-> 0,
     on |-> FALSE, timer |-> Timer_new(0), triggered |-> FALSE,
     drawn |-> <<0, 0, 0>>]

\* Query<..., With<..>>: the entities that own every component of `need`.
Query(es, need) == {id \in DOMAIN es : need \subseteq es[id].comps}

(***************************************************************************)
(* collision.rs                                                            *)
(***************************************************************************)
\* The component names of the detector's two queries: Collidable, the
\* category tag, and the position and bounding radius it reads.
HittableQuery == {"Collidable", "A", "Spatial"}
HurtableQuery == {"Collidable", "B", "Spatial"}

HitEvent(a, b) == <<a, b>>
hittable(ev) == ev[1]
hurtable(ev) == ev[2]

\* distance < a.radius + b.radius with distance = sqrt(d2), over the reals:
\* false when the sum is not positive, else d2 < sum^2.
Overlap_inclusive(a, b) ==
    LET d2 == length_squared(VSub(a.pos, b.pos))
        s  == a.radius + b.radius
    IN  s >= 0 /\ d2 <= s * s

Overlap(a, b) ==
    LET d2 == length_squared(VSub(a.pos, b.pos))
        s  == a.radius + b.radius
    IN  s > 0 /\ d2 < s * s

\* hits.send: an event is appended to the buffer of the current frame.
send(channel, ev) == [channel EXCEPT !.cur = Append(@, ev)]

\* An inner loop that leaves out the hittable itself.
RECURSIVE HurtablesLoop_distinct(_, _, _, _)
HurtablesLoop_distinct(channel, es, a, bs) ==
    IF bs = <<>> THEN channel
    ELSE HurtablesLoop_distinct(
             IF Head(bs) # a /\ Overlap(es[a], es[Head(bs)])
             THEN send(channel, HitEvent(a, Head(bs)))
             ELSE channel,
             es, a, Tail(bs))

\* The inner loop over the hurtables, for one hittable.
RECURSIVE HurtablesLoop(_, _, _, _)
HurtablesLoop(channel, es, a, bs) ==
    IF bs = <<>> THEN channel
    ELSE HurtablesLoop(
             IF Overlap(es[a], es[Head(bs)])
             THEN send(channel, HitEvent(a, Head(bs)))
             ELSE channel,
             es, a, Tail(bs))

\* The outer loop over the hittables.
RECURSIVE HittablesLoop(_, _, _, _)
HittablesLoop(channel, es, as, bs) ==
    IF as = <<>> THEN channel
    ELSE HittablesLoop(HurtablesLoop(channel, es, Head(as), bs), es, Tail(as), bs)

\* A detector that remembers: no event for a pair it reported last frame.
collision_system_dedup(channel, es) ==
    LET all == HittablesLoop([channel EXCEPT !.cur = <<>>], es,
                             Ordered(Query(es, HittableQuery)),
                             Ordered(Query(es, HurtableQuery))).cur
    IN  [channel EXCEPT
           !.cur = @ \o SelectSeq(all, LAMBDA ev : ev \notin Range(channel.prev))]

collision_system(channel, es) ==
    HittablesLoop(channel, es, Ordered(Query(es, HittableQuery)),
                  Ordered(Query(es, HurtableQuery)))

\* Events::update, registered by add_event: once per frame the buffer of the
\* last frame is dropped and the current one takes its place.
Events_update(channel) == [cur |-> <<>>, prev |-> channel.cur]

NoEvents == [cur |-> <<>>, prev |-> <<>>]

(***************************************************************************)
(* SpecCollision: the detector for one category pair (A, B), run once per  *)
(* frame over a small World whose entities are moved between the runs.     *)
(***************************************************************************)
MaxCoord == 3
MaxRadius == 3
RowGap == 4
CollIds == {1, 2}
\* Tag sets: both sides of the pair, one entity on both sides, and entities
\* that lack the Collidable marker or the category tag.
CollTags == {{"Collidable", "A"}, {"Collidable", "B"}, {"Collidable", "A", "B"},
             {"A", "B"}, {"Collidable"}}
CollPoints == {Vec2(x, y) : x \in 0..MaxCoord, y \in {0, RowGap}}

CollEntity(tags, p, r) ==
    [Blank EXCEPT !.comps = tags \cup {"Spatial"}, !.pos = p, !.radius = r]

CollisionInit ==
    /\ ents \in [CollIds -> {CollEntity(t, p, r) :
                               t \in CollTags, p \in {Vec2(0, 0)}, r \in 0..MaxRadius}]
    /\ cmds = <<>>
    /\ hits = NoEvents
    /\ window = <<0, 0>>
    /\ keys = {}
    /\ delta = 0
    /\ acc = [physics |-> 0, spawn |-> 0]
    /\ toRun = {}
    /\ done = {}
    /\ pass = 0
    /\ ran = {}
    /\ frame = 0
    /\ thrusts = 0
    /\ fired = 0
    /\ clock = 0
    /\ held = TRUE
    /\ longest = 0
    /\ before = ents
    /\ phase = "first"

\* The start of a frame: the event buffers are swapped.
CollisionFrame ==
    /\ phase = "ran"
    /\ hits' = Events_update(hits)
    /\ phase' = "first"
    /\ UNCHANGED <<ents, cmds, window, schedVars, weaponHist, before>>

\* The rest of the frame, seen from the detector: an entity is somewhere else.
Reposition(id, p) ==
    /\ phase = "first"
    /\ ents[id].pos # p
    /\ ents' = [ents EXCEPT ![id].pos = p]
    /\ UNCHANGED <<cmds, hits, window, schedVars, weaponHist, before, phase>>

RunCollision ==
    /\ phase = "first"
    /\ hits' = collision_system(hits, ents)
    /\ phase' = "ran"
    /\ UNCHANGED <<ents, cmds, window, schedVars, weaponHist, before>>

CollisionNext ==
    \/ CollisionFrame
    \/ \E id \in CollIds, p \in CollPoints : Reposition(id, p)
    \/ RunCollision

SpecCollision == CollisionInit /\ [][CollisionNext]_vars

\* C1: on every run of the detector for (A,B), a HitEvent{a,b} is emitted if
\* and only if a is Collidable and A, b is Collidable and B, and the distance
\* between their positions is strictly less than the sum of their radii; a
\* pair exactly touching gives no event, and an entity without the Collidable
\* marker or the category tag is in no event.
Dist2(a, b) == length_squared(VSub(ents[a].pos, ents[b].pos))
RadiusSum(a, b) == ents[a].radius + ents[b].radius
Tagged(id, cat) == {"Collidable", cat} \subseteq ents[id].comps
StrictlyCloser(a, b) ==
    \E d \in 0..(2 * (MaxCoord + RowGap + 1)) :
        /\ d * d > Dist2(a, b)
        /\ d <= RadiusSum(a, b)

C1_HitIffStrictOverlap ==
    phase = "ran" =>
        \A a \in DOMAIN ents, b \in DOMAIN ents :
            HitEvent(a, b) \in Range(hits.cur)
                <=> (Tagged(a, "A") /\ Tagged(b, "B") /\ StrictlyCloser(a, b))

\* A pair that gave an event in the last frame now exactly touches (along an
\* axis or along the diagonal), and gives none.
C1_Witness ==
    /\ phase = "ran"
    /\ \E a \in DOMAIN ents, b \in DOMAIN ents :
          /\ a # b
          /\ Tagged(a, "A") /\ Tagged(b, "B")
          /\ Dist2(a, b) = RadiusSum(a, b) * RadiusSum(a, b)
          /\ ents[a].pos[1] # ents[b].pos[1]
          /\ ents[a].pos[2] # ents[b].pos[2]
          /\ HitEvent(a, b) \in Range(hits.prev)
          /\ HitEvent(a, b) \notin Range(hits.cur)

\* C2: hit events are not deduplicated across ticks: in every run, a pair
\* that overlaps gives exactly one HitEvent (never zero, never two), also
\* when the same pair already gave one in the run of the frame before.
C2_OneEventPerRun ==
    phase = "ran" =>
        \A a \in DOMAIN ents, b \in DOMAIN ents :
            (Tagged(a, "A") /\ Tagged(b, "B") /\ StrictlyCloser(a, b))
                => Count(hits.cur, HitEvent(a, b)) = 1

C2_Witness ==
    /\ phase = "ran"
    /\ \E a \in DOMAIN ents, b \in DOMAIN ents :
          /\ a # b
          /\ Count(hits.prev, HitEvent(a, b)) = 1
          /\ Count(hits.cur, HitEvent(a, b)) = 1

(***************************************************************************)
(* main.rs: Commands                                                       *)
(***************************************************************************)
\* commands.entity(e).despawn() and commands.spawn_bundle(..).insert(..):
\* both are queued; nothing happens to the World until the queue is applied.
Despawn(id) == [op |-> "despawn", id |-> id, entity |-> Blank]
Spawn(id, e) == [op |-> "spawn", id |-> id, entity |-> e]

\* Entities::reserve_entity: the id of a spawned entity is taken when the
\* command is queued.
FreshId(es, queue) ==
    Max({0} \cup DOMAIN es \cup {queue[i].id : i \in DOMAIN queue}) + 1

ApplyOne(es, c) ==
    IF c.op = "despawn"
    THEN [id \in DOMAIN es \ {c.id} |-> es[id]]
    ELSE [id \in DOMAIN es \cup {c.id} |-> IF id = c.id THEN c.entity ELSE es[id]]

\* The stage applies the systems' command buffers after the systems ran.
RECURSIVE ApplyCommands(_, _)
ApplyCommands(es, queue) ==
    IF queue = <<>> THEN es
    ELSE ApplyCommands(ApplyOne(es, Head(queue)), Tail(queue))

(***************************************************************************)
(* main.rs: boundary_wrap_system, boundary_remove_system                   *)
(***************************************************************************)
\* window.width / 2.0; the widths and heights of the model are even.
Half(n) == n \div 2

\* One axis of boundary_wrap_system with a margin of one radius.
wrap_axis_one_radius(p, r, half) ==
    IF p + r < -half THEN half + r
    ELSE IF p - r > half THEN -half - r
    ELSE p

\* One axis of a wrap that also takes an entity exactly on the margin.
wrap_axis_inclusive(p, r, half) ==
    IF p + r * 2 <= -half THEN half + r * 2
    ELSE IF p - r * 2 >= half THEN -half - r * 2
    ELSE p

\* One axis of boundary_wrap_system: the new coordinate.
wrap_axis(p, r, half) ==
    IF p + r * 2 < -half THEN half + r * 2
    ELSE IF p - r * 2 > half THEN -half - r * 2
    ELSE p

\* A wrap system that takes an entity beyond the margin out of the World.
boundary_wrap_system_despawn(win, es) ==
    [id \in {i \in DOMAIN es :
                ~(/\ i \in Query(es, {"Spatial", "BoundaryWrap"})
                  /\ \/ wrap_axis(es[i].pos[1], es[i].radius, Half(win[1])) # es[i].pos[1]
                     \/ wrap_axis(es[i].pos[2], es[i].radius, Half(win[2])) # es[i].pos[2])}
        |-> es[id]]

\* A wrap system whose axes are coupled: a wrap on x mirrors y as well.
boundary_wrap_system_coupled(win, es) ==
    [id \in DOMAIN es |->
        IF id \in Query(es, {"Spatial", "BoundaryWrap"})
        THEN LET x == wrap_axis(es[id].pos[1], es[id].radius, Half(win[1]))
             IN  [es[id] EXCEPT
                    !.pos = Vec2(x, IF x # es[id].pos[1] THEN -es[id].pos[2]
                                    ELSE wrap_axis(es[id].pos[2], es[id].radius,
                                                   Half(win[2])))]
        ELSE es[id]]

boundary_wrap_system(win, es) ==
    [id \in DOMAIN es |->
        IF id \in Query(es, {"Spatial", "BoundaryWrap"})
        THEN [es[id] EXCEPT
                !.pos = Vec2(wrap_axis(es[id].pos[1], es[id].radius, Half(win[1])),
                             wrap_axis(es[id].pos[2], es[id].radius, Half(win[2])))]
        ELSE es[id]]

\* The condition of boundary_remove_system with a margin of one radius.
remove_condition_one_radius(win, e) ==
    \/ e.pos[1] + e.radius < -Half(win[1])
    \/ e.pos[1] - e.radius > Half(win[1])
    \/ e.pos[2] + e.radius < -Half(win[2])
    \/ e.pos[2] - e.radius > Half(win[2])

\* A condition that misses the entities leaving by the top edge.
remove_condition_no_top(win, e) ==
    \/ e.pos[1] + e.radius * 2 < -Half(win[1])
    \/ e.pos[1] - e.radius * 2 > Half(win[1])
    \/ e.pos[2] + e.radius * 2 < -Half(win[2])

\* The condition under which boundary_remove_system despawns an entity.
remove_condition(win, e) ==
    \/ e.pos[1] + e.radius * 2 < -Half(win[1])
    \/ e.pos[1] - e.radius * 2 > Half(win[1])
    \/ e.pos[2] + e.radius * 2 < -Half(win[2])
    \/ e.pos[2] - e.radius * 2 > Half(win[2])

RECURSIVE RemoveLoop(_, _, _, _)
RemoveLoop(win, es, ids, queue) ==
    IF ids = <<>> THEN queue
    ELSE RemoveLoop(win, es, Tail(ids),
                    IF remove_condition(win, es[Head(ids)])
                    THEN Append(queue, Despawn(Head(ids)))
                    ELSE queue)

\* The command queue after boundary_remove_system.
boundary_remove_system(win, es, queue) ==
    RemoveLoop(win, es, Ordered(Query(es, {"Spatial", "BoundaryRemoval"})), queue)

(***************************************************************************)
(* SpecBoundary: the "wrap" system set over one entity near an edge of the *)
(* window; the two systems run in either order, then the stage applies the *)
(* commands.                                                               *)
(***************************************************************************)
Slack == 1
MaxRounds == 2
BoundWindows == {<<800, 600>>, <<1280, 720>>}
BoundRadii == {2, 10}
BoundPolicies == {"BoundaryWrap", "BoundaryRemoval"}
WrapSet == {"boundary_remove_system", "boundary_wrap_system"}

\* Coordinates at the centre and around the points where the centre, the
\* near edge, the far edge or the 2 x radius margin meets the bound.
EdgeCoords(half, r) ==
    {0} \cup UNION {(s * (half + k * r) - Slack)..(s * (half + k * r) + Slack) :
                        s \in {-1, 1}, k \in {-1, 0, 1, 2}}

\* The entity is in motion and turned a quarter.
BoundEntity(policy, p, r) ==
    [Blank EXCEPT !.comps = {"Spatial", "Velocity", policy}, !.pos = p, !.radius = r,
                  !.vel = Vec2(3, -2), !.rot = 1]

BoundaryInit ==
    /\ window \in BoundWindows
    /\ \E policy \in BoundPolicies, r \in BoundRadii :
         \E x \in EdgeCoords(Half(window[1]), r), y \in EdgeCoords(Half(window[2]), r) :
            ents = (1 :> BoundEntity(policy, Vec2(x, y), r))
    /\ cmds = <<>>
    /\ hits = NoEvents
    /\ keys = {}
    /\ delta = 0
    /\ acc = [physics |-> 0, spawn |-> 0]
    /\ toRun = WrapSet
    /\ done = {}
    /\ pass = 1
    /\ ran = {}
    /\ frame = 0
    /\ thrusts = 0
    /\ fired = 0
    /\ clock = 0
    /\ held = TRUE
    /\ longest = 0
    /\ before = ents
    /\ phase = "wrap"

BoundaryRunWrap ==
    /\ phase = "wrap"
    /\ "boundary_wrap_system" \notin done
    /\ ents' = boundary_wrap_system(window, ents)
    /\ done' = done \cup {"boundary_wrap_system"}
    /\ UNCHANGED <<cmds, hits, window, keys, delta, acc, toRun, pass, ran, frame,
                   thrusts, weaponHist, before, phase>>

BoundaryRunRemove ==
    /\ phase = "wrap"
    /\ "boundary_remove_system" \notin done
    /\ cmds' = boundary_remove_system(window, ents, cmds)
    /\ done' = done \cup {"boundary_remove_system"}
    /\ UNCHANGED <<ents, hits, window, keys, delta, acc, toRun, pass, ran, frame,
                   thrusts, weaponHist, before, phase>>

\* The end of the stage: the queued despawns take effect.
BoundaryApply ==
    /\ phase = "wrap"
    /\ done = WrapSet
    /\ ents' = ApplyCommands(ents, cmds)
    /\ cmds' = <<>>
    /\ phase' = "end"
    /\ UNCHANGED <<hits, window, keys, delta, acc, toRun, done, pass, ran, frame,
                   thrusts, weaponHist, before>>

\* The next frame, with no movement in between.
BoundaryAgain ==
    /\ phase = "end"
    /\ frame < MaxRounds
    /\ frame' = frame + 1
    /\ done' = {}
    /\ phase' = "wrap"
    /\ UNCHANGED <<ents, cmds, hits, window, keys, delta, acc, toRun, pass, ran,
                   thrusts, weaponHist, before>>

BoundaryNext ==
    \/ BoundaryRunWrap
    \/ BoundaryRunRemove
    \/ BoundaryApply
    \/ BoundaryAgain

SpecBoundary == BoundaryInit /\ [][BoundaryNext]_vars

HalfWidth == Half(window[1])
HalfHeight == Half(window[2])
HasPolicy(e, policy) == {"Spatial", policy} \subseteq e.comps

\* C6 as stated: after a boundary step, a remove-policy entity whose far edge
\* (centre plus radius, on the side it leaves by) exceeds the bounds on some
\* axis is destroyed, and one entirely within the bounds is retained.
C6_FarEdgeOutDestroyed ==
    phase = "end" =>
        \A id \in DOMAIN before :
            HasPolicy(before[id], "BoundaryRemoval") =>
                /\ (\/ Abs(before[id].pos[1]) + before[id].radius > HalfWidth
                    \/ Abs(before[id].pos[2]) + before[id].radius > HalfHeight)
                        => id \notin DOMAIN ents
                /\ (/\ Abs(before[id].pos[1]) + before[id].radius <= HalfWidth
                    /\ Abs(before[id].pos[2]) + before[id].radius <= HalfHeight)
                        => id \in DOMAIN ents

\* C6 amended: after a boundary step, a remove-policy entity is destroyed
\* exactly when on some axis its centre lies beyond the bound by more than
\* twice its radius; in particular an entity entirely within the bounds on
\* all axes is retained, and so is one whose far edge alone is outside.
C6_BeyondMarginDestroyed ==
    phase = "end" =>
        \A id \in DOMAIN before :
            HasPolicy(before[id], "BoundaryRemoval") =>
                /\ id \notin DOMAIN ents
                      <=> (\/ Abs(before[id].pos[1]) > HalfWidth + 2 * before[id].radius
                           \/ Abs(before[id].pos[2]) > HalfHeight + 2 * before[id].radius)
                /\ (/\ Abs(before[id].pos[1]) + before[id].radius <= HalfWidth
                    /\ Abs(before[id].pos[2]) + before[id].radius <= HalfHeight)
                        => id \in DOMAIN ents

\* A remove-policy entity just past the margin on one axis only was destroyed.
C6_Witness ==
    /\ phase = "end"
    /\ \E id \in DOMAIN before :
          /\ HasPolicy(before[id], "BoundaryRemoval")
          /\ before[id].pos[1] = HalfWidth + 2 * before[id].radius + 1
          /\ before[id].pos[2] = 0
          /\ id \notin DOMAIN ents

\* The 1-D case of C7: width 800, radius 10, wrap policy, y at the centre.
C7_Case(id, x) ==
    /\ window[1] = 800
    /\ HasPolicy(before[id], "BoundaryWrap")
    /\ before[id].radius = 10
    /\ before[id].pos = Vec2(x, 0)

\* C7 as stated: the boundary-wrap step moves the entity at x=421 to x=-421
\* and leaves the entity at x=419 where it is.
C7_WrapsToMinus421 ==
    phase = "end" =>
        \A id \in DOMAIN before :
            /\ C7_Case(id, 421) => (id \in DOMAIN ents /\ ents[id].pos = Vec2(-421, 0))
            /\ C7_Case(id, 419) => (id \in DOMAIN ents /\ ents[id].pos = Vec2(419, 0))

\* C7 amended: the boundary-wrap step moves the entity at x=421 to x=-420
\* (the opposite bound, -400, less the margin of 2 x radius) and leaves the
\* entity at x=419 where it is.
C7_WrapsToMinus420 ==
    phase = "end" =>
        \A id \in DOMAIN before :
            /\ C7_Case(id, 421) => (id \in DOMAIN ents /\ ents[id].pos = Vec2(-420, 0))
            /\ C7_Case(id, 419) => (id \in DOMAIN ents /\ ents[id].pos = Vec2(419, 0))

C7_Witness ==
    /\ phase = "end"
    /\ \E id \in DOMAIN before :
          /\ C7_Case(id, 421)
          /\ ents[id].pos[1] < 0

(***************************************************************************)
(* main.rs: the components of the ship, and the systems                    *)
(***************************************************************************)
TimeStep == 2            \* TIME_STEP, 1/120 s
WeaponCooldown == 24     \* Weapon::new(Duration::from_millis(100))
DampingNum == 998        \* Damping(0.998)
DampingDen == 1000

\* The World of the model is small: lengths, speeds and the turn rate are
\* scaled down, and keep their order (bullet faster than the ship's limit,
\* ship larger than a bullet).
ShipRadius == 2
ShipSpeedLimit == 2
ShipThrust == 1
TurnRate == 1
BulletSpeed == 3
BulletRadius == 1

\* cos and sin of an angle counted in quarter turns.
Cos(q) == CASE q % 4 = 0 -> 1 [] q % 4 = 2 -> -1 [] OTHER -> 0
Sin(q) == CASE q % 4 = 1 -> 1 [] q % 4 = 3 -> -1 [] OTHER -> 0

\* Division rounding toward zero: the value an f32 result has on the grid.
TruncDiv(a, b) == IF a >= 0 THEN a \div b ELSE -((-a) \div b)

\* c * len / sqrt(len2), rounded toward zero, for |c| <= sqrt(len2).
ScaleComponent(c, len, len2) ==
    LET k == Max({j \in 0..len : j * j * len2 <= c * c * len * len})
    IN  IF c < 0 THEN -k ELSE k

\* A clamp that lets a vector keep twice the length max.
clamp_length_max_twice(v, max) ==
    IF length_squared(v) > 4 * max * max
    THEN Vec2(ScaleComponent(v[1], 2 * max, length_squared(v)),
              ScaleComponent(v[2], 2 * max, length_squared(v)))
    ELSE v

\* Vec2::clamp_length_max: a vector longer than max is scaled to length max.
clamp_length_max(v, max) ==
    IF length_squared(v) > max * max
    THEN Vec2(ScaleComponent(v[1], max, length_squared(v)),
              ScaleComponent(v[2], max, length_squared(v)))
    ELSE v

\* setup_system: the ship.
Ship ==
    [Blank EXCEPT
       !.comps = {"Transform", "Spatial", "Velocity", "SpeedLimit", "Damping",
                  "ThrustEngine", "SteeringControl", "Weapon", "BoundaryWrap"},
       !.radius = ShipRadius,
       !.limit = ShipSpeedLimit,
       !.damping = <<DampingNum, DampingDen>>,
       !.force = ShipThrust,
       !.timer = Timer_new(WeaponCooldown)]

\* A bullet that carries both boundary tags.
Bullet_both_policies(e) ==
    LET bullet_dir == Vec2(Cos(e.rot), Sin(e.rot))
        bullet_pos == VAdd(e.pos, VScale(bullet_dir, e.radius))
    IN  [Blank EXCEPT
           !.comps = {"Transform", "Spatial", "Velocity", "BoundaryRemoval", "BoundaryWrap"},
           !.pos = bullet_pos,
           !.radius = BulletRadius,
           !.vel = VScale(bullet_dir, BulletSpeed),
           !.drawn = <<bullet_pos[1], bullet_pos[2], 0>>]

\* The bullet weapon_system spawns for the entity e.
Bullet(e) ==
    LET bullet_dir == Vec2(Cos(e.rot), Sin(e.rot))
        bullet_pos == VAdd(e.pos, VScale(bullet_dir, e.radius))
    IN  [Blank EXCEPT
           !.comps = {"Transform", "Spatial", "Velocity", "BoundaryRemoval"},
           !.pos = bullet_pos,
           !.radius = BulletRadius,
           !.vel = VScale(bullet_dir, BulletSpeed),
           !.drawn = <<bullet_pos[1], bullet_pos[2], 0>>]

\* A repeating timer that starts over at zero when it finishes.
Timer_tick_restart(t, dt) ==
    LET e == t.elapsed + dt
    IN  IF e >= t.duration
        THEN [t EXCEPT !.finished = TRUE, !.times = 1, !.elapsed = 0]
        ELSE [t EXCEPT !.finished = FALSE, !.times = 0, !.elapsed = e]

\* Timer::tick of a repeating timer: it finishes when the elapsed time
\* reaches the duration, and keeps what is left over.
Timer_tick(t, dt) ==
    LET e == t.elapsed + dt
    IN  IF e >= t.duration
        THEN [t EXCEPT !.finished = TRUE,
                       !.times = e \div t.duration,
                       !.elapsed = e - t.duration * (e \div t.duration)]
        ELSE [t EXCEPT !.finished = FALSE, !.times = 0, !.elapsed = e]

movement_system(es) ==
    [id \in DOMAIN es |->
        IF id \in Query(es, {"Spatial", "Velocity"})
        THEN [es[id] EXCEPT !.pos = VAdd(@, VScale(es[id].vel, TimeStep))]
        ELSE es[id]]

speed_limit_system(es) ==
    [id \in DOMAIN es |->
        IF id \in Query(es, {"Velocity", "SpeedLimit"})
        THEN [es[id] EXCEPT !.vel = clamp_length_max(@, es[id].limit)]
        ELSE es[id]]

damping_system(es) ==
    [id \in DOMAIN es |->
        IF id \in Query(es, {"Velocity", "Damping"})
        THEN [es[id] EXCEPT
                !.vel = Vec2(TruncDiv(@[1] * es[id].damping[1], es[id].damping[2]),
                             TruncDiv(@[2] * es[id].damping[1], es[id].damping[2]))]
        ELSE es[id]]

thrust_system(es) ==
    [id \in DOMAIN es |->
        IF id \in Query(es, {"Velocity", "ThrustEngine", "Spatial"}) /\ es[id].on
        THEN [es[id] EXCEPT
                !.vel = Vec2(@[1] + Cos(es[id].rot) * es[id].force,
                             @[2] + Sin(es[id].rot) * es[id].force)]
        ELSE es[id]]

\* weapon_system, the World: every weapon's timer is ticked.
weapon_system_tick(dt, es) ==
    [id \in DOMAIN es |->
        IF id \in Query(es, {"Spatial", "Weapon"})
        THEN [es[id] EXCEPT !.timer = Timer_tick(@, dt)]
        ELSE es[id]]

\* A weapon that fires whenever its timer finished.
should_fire_untriggered(e) == e.timer.finished

\* weapon_system, the condition under which the (ticked) weapon fires.
should_fire(e) == e.timer.finished /\ e.triggered

RECURSIVE FireLoop(_, _, _)
FireLoop(es, ids, queue) ==
    IF ids = <<>> THEN queue
    ELSE FireLoop(es, Tail(ids),
                  IF should_fire(es[Head(ids)])
                  THEN Append(queue, Spawn(FreshId(es, queue), Bullet(es[Head(ids)])))
                  ELSE queue)

\* weapon_system, the commands: one bullet for each weapon that fires.
weapon_system_fire(dt, es, queue) ==
    FireLoop(weapon_system_tick(dt, es), Ordered(Query(es, {"Spatial", "Weapon"})), queue)

steering_control_system(pressed, dt, es) ==
    [id \in DOMAIN es |->
        IF id \in Query(es, {"Spatial", "SteeringControl"})
        THEN [es[id] EXCEPT
                !.rot = (@ + (IF "Left" \in pressed THEN TurnRate * dt ELSE 0)
                           - (IF "Right" \in pressed THEN TurnRate * dt ELSE 0)) % 4]
        ELSE es[id]]

thrust_control_system(pressed, es) ==
    [id \in DOMAIN es |->
        IF id \in Query(es, {"ThrustEngine"})
        THEN [es[id] EXCEPT !.on = "Up" \in pressed]
        ELSE es[id]]

weapon_control_system(pressed, es) ==
    [id \in DOMAIN es |->
        IF id \in Query(es, {"Weapon"})
        THEN [es[id] EXCEPT !.triggered = "Space" \in pressed]
        ELSE es[id]]

drawing_system(es) ==
    [id \in DOMAIN es |->
        IF id \in Query(es, {"Transform", "Spatial"})
        THEN [es[id] EXCEPT !.drawn = <<es[id].pos[1], es[id].pos[2], es[id].rot>>]
        ELSE es[id]]

(***************************************************************************)
(* SpecWeapon: the ship's weapon over a run of frames of any durations:    *)
(* weapon_control_system, then weapon_system, then the stage applies the   *)
(* commands.                                                               *)
(***************************************************************************)
MaxClock == 120
WeaponDeltas == {1, 10, WeaponCooldown, 2 * WeaponCooldown + 2}
ShipId == 1

WeaponInit ==
    /\ ents = (ShipId :> Ship)
    /\ cmds = <<>>
    /\ hits = NoEvents
    /\ window = <<0, 0>>
    /\ keys = {}
    /\ delta = 0
    /\ acc = [physics |-> 0, spawn |-> 0]
    /\ toRun = {}
    /\ done = {}
    /\ pass = 0
    /\ ran = {}
    /\ frame = 0
    /\ thrusts = 0
    /\ fired = 0
    /\ clock = 0
    /\ held = TRUE
    /\ longest = 0
    /\ before = ents
    /\ phase = "frame"

\* A frame begins: the time since the last frame and the state of the keys.
WeaponFrame ==
    /\ phase = "frame"
    /\ clock < MaxClock
    /\ \E dt \in WeaponDeltas, pressed \in SUBSET {"Space"} :
          /\ delta' = dt
          /\ keys' = pressed
          /\ held' = (held /\ "Space" \in pressed)
          /\ longest' = IF dt > longest THEN dt ELSE longest
    /\ phase' = "input"
    /\ UNCHANGED <<ents, cmds, hits, window, acc, toRun, done, pass, ran, frame,
                   thrusts, fired, clock, before>>

WeaponControl ==
    /\ phase = "input"
    /\ ents' = weapon_control_system(keys, ents)
    /\ before' = ents'
    /\ phase' = "weapon"
    /\ UNCHANGED <<cmds, hits, window, schedVars, weaponHist>>

WeaponRun ==
    /\ phase = "weapon"
    /\ ents' = weapon_system_tick(delta, ents)
    /\ cmds' = weapon_system_fire(delta, ents, cmds)
    /\ clock' = clock + delta
    /\ phase' = "fired"
    /\ UNCHANGED <<hits, window, schedVars, fired, held, longest, before>>

\* The end of the stage: the queued bullets enter the World.
WeaponApply ==
    /\ phase = "fired"
    /\ ents' = ApplyCommands(ents, cmds)
    /\ fired' = fired + Cardinality(DOMAIN ents') - Cardinality(DOMAIN ents)
    /\ cmds' = <<>>
    /\ phase' = "frame"
    /\ UNCHANGED <<hits, window, schedVars, clock, held, longest, before>>

WeaponNext ==
    \/ WeaponFrame
    \/ WeaponControl
    \/ WeaponRun
    \/ WeaponApply

SpecWeapon == WeaponInit /\ [][WeaponNext]_vars

\* The cooldown intervals completed by the time the timer has been ticked with.
Completed == clock \div WeaponCooldown

SpawnStep == 120         \* FixedTimestep::step(0.5)

\* Vec2::normalize_or_zero, times a length.
normalize_or_zero_times(v, len) ==
    IF length_squared(v) = 0 THEN Vec2(0, 0)
    ELSE Vec2(ScaleComponent(v[1], len, length_squared(v)),
              ScaleComponent(v[2], len, length_squared(v)))

\* An asteroid placed one radius beyond the edge.
Asteroid_one_radius(win, d) ==
    LET w == Half(win[1])
        h == Half(win[2])
        c == d.r
        position == IF d.vertical
                    THEN Vec2(d.x, IF d.y > 0 THEN h + c ELSE -h - c)
                    ELSE Vec2(IF d.x > 0 THEN w + c ELSE -w - c, d.y)
        velocity == normalize_or_zero_times(VSub(Vec2(d.tx, d.ty), position), d.speed)
    IN  [Blank EXCEPT
           !.comps = {"Transform", "Spatial", "Velocity", "BoundaryRemoval"},
           !.pos = position,
           !.radius = d.r,
           !.vel = velocity,
           !.drawn = <<position[1], position[2], 0>>]

\* An asteroid placed three radii beyond the edge.
Asteroid_three_radii(win, d) ==
    LET w == Half(win[1])
        h == Half(win[2])
        c == d.r * 3
        position == IF d.vertical
                    THEN Vec2(d.x, IF d.y > 0 THEN h + c ELSE -h - c)
                    ELSE Vec2(IF d.x > 0 THEN w + c ELSE -w - c, d.y)
        velocity == normalize_or_zero_times(VSub(Vec2(d.tx, d.ty), position), d.speed)
    IN  [Blank EXCEPT
           !.comps = {"Transform", "Spatial", "Velocity", "BoundaryRemoval"},
           !.pos = position,
           !.radius = d.r,
           !.vel = velocity,
           !.drawn = <<position[1], position[2], 0>>]

\* The asteroid spawned for one draw of the random numbers: x, y, r, the
\* side (vertical: above or below; else left or right), the point aimed at
\* and the speed.
Asteroid(win, d) ==
    LET w == Half(win[1])
        h == Half(win[2])
        c == d.r * 2
        position == IF d.vertical
                    THEN Vec2(d.x, IF d.y > 0 THEN h + c ELSE -h - c)
                    ELSE Vec2(IF d.x > 0 THEN w + c ELSE -w - c, d.y)
        velocity == normalize_or_zero_times(VSub(Vec2(d.tx, d.ty), position), d.speed)
    IN  [Blank EXCEPT
           !.comps = {"Transform", "Spatial", "Velocity", "BoundaryRemoval"},
           !.pos = position,
           !.radius = d.r,
           !.vel = velocity,
           !.drawn = <<position[1], position[2], 0>>]

\* The command queue after asteroid_spawn_system, when gen_bool(1/3) is true.
asteroid_spawn_system(win, d, es, queue) ==
    Append(queue, Spawn(FreshId(es, queue), Asteroid(win, d)))

(***************************************************************************)
(* main.rs: the schedule built in main                                     *)
(*                                                                         *)
(* All systems are in one stage.  A system starts when the systems it is   *)
(* ordered after have finished (a system that does not run this pass       *)
(* counts as finished); systems with no order between them start in either *)
(* order.  The stage evaluates the run criteria, runs the systems, applies  *)
(* the command buffers, and then evaluates again the criteria that asked to *)
(* be checked again: FixedTimestep adds the frame's delta to its            *)
(* accumulator once a frame, and says "yes, and check again" for as long as *)
(* a whole step is left in it.  The systems of such criteria run again, in  *)
(* a further pass; the systems without run criteria run in the first pass   *)
(* only.                                                                    *)
(***************************************************************************)
InputSet == {"steering_control_system", "thrust_control_system", "weapon_control_system"}
ActuatorSet == {"weapon_system", "thrust_system"}
PhysicsSet == {"damping_system", "speed_limit_system", "movement_system"}
SpawnSet == {"asteroid_spawn_system"}
DetectorSet == {"collision_system"}
DrawSet == {"drawing_system"}

\* The systems with no run criteria.
EveryFrame == InputSet \cup ActuatorSet \cup WrapSet \cup DetectorSet \cup DrawSet

\* The schedule without the order between "physics" and "wrap".
ScheduleAfter_wrap_unordered(s) ==
    CASE s \in ActuatorSet -> InputSet
      [] s \in {"damping_system", "speed_limit_system"} -> InputSet \cup ActuatorSet
      [] s = "movement_system" ->
            InputSet \cup ActuatorSet \cup {"damping_system", "speed_limit_system"}
      [] s \in DrawSet -> InputSet \cup ActuatorSet \cup PhysicsSet \cup WrapSet
      [] OTHER -> {}

\* The systems that s is ordered after by main (labels, before, after).
ScheduleAfter(s) ==
    CASE s \in ActuatorSet -> InputSet
      [] s \in {"damping_system", "speed_limit_system"} -> InputSet \cup ActuatorSet
      [] s = "movement_system" ->
            InputSet \cup ActuatorSet \cup {"damping_system", "speed_limit_system"}
      [] s \in WrapSet -> InputSet \cup ActuatorSet \cup PhysicsSet
      [] s \in DrawSet -> InputSet \cup ActuatorSet \cup PhysicsSet \cup WrapSet
      [] OTHER -> {}

\* The place of the detector in the frame: after boundary wrap/remove,
\* before presentation sync.
DetectorAfter(s) ==
    CASE s \in DetectorSet -> WrapSet
      [] s \in DrawSet -> DetectorSet
      [] OTHER -> {}

After(s) == ScheduleAfter(s) \cup DetectorAfter(s)
              \cup UNION {ScheduleAfter(t) : t \in DetectorAfter(s)}

\* FixedTimestep::update: the accumulator after the evaluation, and the answer.
FixedTimestep_update(a, step, looping, dt) ==
    LET a1 == IF looping THEN a ELSE a + dt
    IN  IF a1 >= step THEN [acc |-> a1 - step, run |-> TRUE]
        ELSE [acc |-> a1, run |-> FALSE]

(***************************************************************************)
(* Spec: the frames of the game                                            *)
(***************************************************************************)
MaxFrames == 2
MaxEnts == 4
WinWidth == 8
WinHeight == 8
FrameWindow == <<WinWidth, WinHeight>>
FrameDeltas == {1, TimeStep, 2 * TimeStep}
KeyChoices == {{}, {"Up"}, {"Up", "Space"}, {"Left"}, {"Left", "Right"}}

\* Draws of the spawner's random numbers.
AsteroidDraws ==
    {[x |-> 1, y |-> 1, r |-> 1, vertical |-> TRUE, tx |-> 0, ty |-> 0, speed |-> 2],
     [x |-> -2, y |-> 0, r |-> 2, vertical |-> FALSE, tx |-> 1, ty |-> -1, speed |-> 1]}

\* A projectile and a hazard that game code has tagged for the detector.
TaggedBullet(p, v) ==
    [Blank EXCEPT
       !.comps = {"Transform", "Spatial", "Velocity", "BoundaryRemoval", "Collidable", "A"},
       !.pos = p, !.radius = BulletRadius, !.vel = v, !.drawn = <<p[1], p[2], 0>>]
TaggedRock(p, v) ==
    [Blank EXCEPT
       !.comps = {"Transform", "Spatial", "Velocity", "BoundaryRemoval", "Collidable", "B"},
       !.pos = p, !.radius = BulletRadius, !.vel = v, !.drawn = <<p[1], p[2], 0>>]

\* The Worlds a frame may start from: the ship as setup_system leaves it;
\* the ship at full speed at the right edge; the ship with a bullet about
\* to leave the window where a rock is.
FrameScenes ==
    LET edge == Half(WinWidth) + 2 * ShipRadius
        out  == Half(WinWidth) + 2 * BulletRadius + 1
    IN  {(ShipId :> Ship),
         (ShipId :> [Ship EXCEPT !.pos = Vec2(edge, 0), !.vel = Vec2(ShipSpeedLimit, 0),
                                 !.drawn = <<edge, 0, 0>>]),
         (ShipId :> Ship)
            @@ (ShipId + 1 :> TaggedBullet(Vec2(out - TimeStep * BulletSpeed, 0),
                                           Vec2(BulletSpeed, 0)))
            @@ (ShipId + 2 :> TaggedRock(Vec2(out - TimeStep, 0), Vec2(1, 0)))}

Init ==
    /\ ents \in {[sc EXCEPT ![ShipId].timer.elapsed = e] :
                    sc \in FrameScenes, e \in {0, WeaponCooldown - 1}}
    /\ cmds = <<>>
    /\ hits = NoEvents
    /\ window = FrameWindow
    /\ keys = {}
    /\ delta = 0
    /\ acc \in {[physics |-> a, spawn |-> b] :
                    a \in 0..(TimeStep - 1), b \in {0, SpawnStep - 1}}
    /\ toRun = {}
    /\ done = {}
    /\ pass = 0
    /\ ran = {}
    /\ frame = 0
    /\ thrusts = 0
    /\ fired = 0
    /\ clock = 0
    /\ held = TRUE
    /\ longest = 0
    /\ before = <<>>
    /\ phase = "game"

\* The frame begins: Time and Input are updated, the event buffers are
\* swapped, the run criteria are evaluated.
BeginFrame ==
    /\ pass = 0
    /\ frame < MaxFrames
    /\ \E dt \in FrameDeltas, pressed \in KeyChoices :
          LET p == FixedTimestep_update(acc.physics, TimeStep, FALSE, dt)
              q == FixedTimestep_update(acc.spawn, SpawnStep, FALSE, dt)
          IN  /\ delta' = dt
              /\ keys' = pressed
              /\ acc' = [physics |-> p.acc, spawn |-> q.acc]
              /\ toRun' = EveryFrame \cup (IF p.run THEN PhysicsSet ELSE {})
                                     \cup (IF q.run THEN SpawnSet ELSE {})
    /\ hits' = Events_update(hits)
    /\ done' = {}
    /\ ran' = {}
    /\ pass' = 1
    /\ frame' = frame + 1
    /\ UNCHANGED <<ents, cmds, window, thrusts, weaponHist, before, phase>>

\* The pass ends: the command buffers are applied and the criteria that
\* asked for it are evaluated again.
EndPass ==
    /\ pass > 0
    /\ done = toRun
    /\ ents' = ApplyCommands(ents, cmds)
    /\ cmds' = <<>>
    /\ LET p == IF PhysicsSet \subseteq toRun
                THEN FixedTimestep_update(acc.physics, TimeStep, TRUE, delta)
                ELSE [acc |-> acc.physics, run |-> FALSE]
           q == IF SpawnSet \subseteq toRun
                THEN FixedTimestep_update(acc.spawn, SpawnStep, TRUE, delta)
                ELSE [acc |-> acc.spawn, run |-> FALSE]
           again == (IF p.run THEN PhysicsSet ELSE {}) \cup (IF q.run THEN SpawnSet ELSE {})
       IN  /\ acc' = [physics |-> p.acc, spawn |-> q.acc]
           /\ toRun' = again
           /\ pass' = IF again = {} THEN 0 ELSE pass + 1
    /\ done' = {}
    /\ UNCHANGED <<hits, window, keys, delta, ran, frame, thrusts, weaponHist,
                   before, phase>>

\* The system s starts: it is to run in this pass, has not yet, and the
\* systems it is ordered after have finished.
Start(s) ==
    /\ pass > 0
    /\ s \in toRun \ done
    /\ (After(s) \cap toRun) \subseteq done
    /\ done' = done \cup {s}
    /\ ran' = ran \cup {s}
    /\ UNCHANGED <<window, keys, delta, acc, toRun, pass, frame, weaponHist,
                   before, phase>>

Run_steering_control_system ==
    /\ Start("steering_control_system")
    /\ ents' = steering_control_system(keys, delta, ents)
    /\ UNCHANGED <<cmds, hits, thrusts>>

Run_thrust_control_system ==
    /\ Start("thrust_control_system")
    /\ ents' = thrust_control_system(keys, ents)
    /\ UNCHANGED <<cmds, hits, thrusts>>

Run_weapon_control_system ==
    /\ Start("weapon_control_system")
    /\ ents' = weapon_control_system(keys, ents)
    /\ UNCHANGED <<cmds, hits, thrusts>>

Run_weapon_system ==
    /\ Start("weapon_system")
    /\ ents' = weapon_system_tick(delta, ents)
    /\ cmds' = weapon_system_fire(delta, ents, cmds)
    /\ UNCHANGED <<hits, thrusts>>

Run_thrust_system ==
    /\ Start("thrust_system")
    /\ ents' = thrust_system(ents)
    /\ thrusts' = IF \E id \in Query(ents, {"Velocity", "ThrustEngine", "Spatial"}) : ents[id].on
                  THEN thrusts + 1 ELSE thrusts
    /\ UNCHANGED <<cmds, hits>>

Run_asteroid_spawn_system ==
    /\ Start("asteroid_spawn_system")
    /\ \/ UNCHANGED cmds
       \/ /\ Cardinality(DOMAIN ents) + Len(cmds) < MaxEnts
          /\ \E d \in AsteroidDraws : cmds' = asteroid_spawn_system(window, d, ents, cmds)
    /\ UNCHANGED <<ents, hits, thrusts>>

Run_damping_system ==
    /\ Start("damping_system")
    /\ ents' = damping_system(ents)
    /\ UNCHANGED <<cmds, hits, thrusts>>

Run_speed_limit_system ==
    /\ Start("speed_limit_system")
    /\ ents' = speed_limit_system(ents)
    /\ UNCHANGED <<cmds, hits, thrusts>>

Run_movement_system ==
    /\ Start("movement_system")
    /\ ents' = movement_system(ents)
    /\ thrusts' = 0
    /\ UNCHANGED <<cmds, hits>>

Run_boundary_remove_system ==
    /\ Start("boundary_remove_system")
    /\ cmds' = boundary_remove_system(window, ents, cmds)
    /\ UNCHANGED <<ents, hits, thrusts>>

Run_boundary_wrap_system ==
    /\ Start("boundary_wrap_system")
    /\ ents' = boundary_wrap_system(window, ents)
    /\ UNCHANGED <<cmds, hits, thrusts>>

Run_collision_system ==
    /\ Start("collision_system")
    /\ hits' = collision_system(hits, ents)
    /\ UNCHANGED <<ents, cmds, thrusts>>

Run_drawing_system ==
    /\ Start("drawing_system")
    /\ ents' = drawing_system(ents)
    /\ UNCHANGED <<cmds, hits, thrusts>>

Next ==
    \/ BeginFrame
    \/ Run_steering_control_system
    \/ Run_thrust_control_system
    \/ Run_weapon_control_system
    \/ Run_weapon_system
    \/ Run_thrust_system
    \/ Run_asteroid_spawn_system
    \/ Run_damping_system
    \/ Run_speed_limit_system
    \/ Run_movement_system
    \/ Run_boundary_remove_system
    \/ Run_boundary_wrap_system
    \/ Run_collision_system
    \/ Run_drawing_system
    \/ EndPass

Spec == Init /\ [][Next]_vars

\* C3: in every physics tick the sub-steps run in the order damping, speed
\* clamp, position update, whatever order the schedule allows: the clamp
\* never runs before damping in the same tick, and the position is
\* integrated only after both.
C3_DampingThenClampThenMove ==
    /\ "speed_limit_system" \in done => "damping_system" \in done
    /\ "movement_system" \in done => {"damping_system", "speed_limit_system"} \subseteq done

\* The stage of a system: control intent, application, physics, boundary,
\* presentation.
Staged == InputSet \cup ActuatorSet \cup PhysicsSet \cup WrapSet \cup DrawSet
StageOf(s) ==
    CASE s \in InputSet -> 1
      [] s \in ActuatorSet -> 2
      [] s \in PhysicsSet -> 3
      [] s \in WrapSet -> 4
      [] OTHER -> 5

\* C4: within each frame the stages run in strict order, each completing
\* before the next begins: while a system of some stage has yet to run,
\* no system of a later stage has run in this frame.
C4_StagesInOrder ==
    \A s \in (toRun \ done) \cap Staged, t \in ran \cap Staged : StageOf(t) <= StageOf(s)

Marked(id) == \E i \in DOMAIN cmds : cmds[i] = Despawn(id)

Engaged == \E id \in Query(ents, {"Velocity", "ThrustEngine", "Spatial"}) : ents[id].on

\* C10: while the engine is engaged, thrust is applied exactly once per
\* physics tick, and every application is followed by that tick's damping
\* and clamp before the next one: never two applications without a tick in
\* between, and no tick begins without the application before it.
C10_ThrustOncePerTick ==
    /\ thrusts <= 1
    /\ (Engaged /\ "thrust_system" \in ran /\ "damping_system" \in toRun \ done)
          => thrusts = 1

Limited(es) == Query(es, {"Spatial", "Velocity", "SpeedLimit"})

\* C11: whenever the position of an entity with a SpeedLimit is updated, the
\* velocity used has magnitude at most that SpeedLimit, however much thrust
\* was added since the last physics tick and in whichever order damping and
\* clamp ran: once movement_system has run in a pass, the velocity it read
\* (no later system of the pass writes it) is within the limit.
C11_IntegratesCappedVelocity ==
    "movement_system" \in done =>
        \A id \in Limited(ents) :
            length_squared(ents[id].vel) <= ents[id].limit * ents[id].limit

\* The ship, engine on, has been moved at exactly its speed limit.
C11_Witness ==
    /\ "movement_system" \in done
    /\ \E id \in Limited(ents) :
          /\ ents[id].on
          /\ ents[id].limit > 0
          /\ length_squared(ents[id].vel) = ents[id].limit * ents[id].limit

Policies(e) == e.comps \cap {"BoundaryWrap", "BoundaryRemoval"}
IsShip(e) == "SteeringControl" \in e.comps

\* C12: in every reachable state every entity with spatial state carries
\* exactly one boundary policy tag, wrap for the ship and remove for every
\* projectile and hazard, and in no step does the tag of an entity change.
C12_OnePolicyForLife ==
    /\ [](\A id \in Query(ents, {"Spatial"}) :
             Policies(ents[id]) = IF IsShip(ents[id]) THEN {"BoundaryWrap"}
                                  ELSE {"BoundaryRemoval"})
    /\ [][\A id \in DOMAIN ents \cap DOMAIN ents' :
             Policies(ents'[id]) = Policies(ents[id])]_vars

\* The ship, a projectile its weapon fired and a hazard of the spawner are
\* in the World together.
C12_Witness ==
    \E s \in DOMAIN ents, b \in DOMAIN ents, a \in DOMAIN ents :
        /\ IsShip(ents[s])
        /\ ents[b].comps = Bullet(ents[s]).comps
        /\ length_squared(ents[b].vel) = BulletSpeed * BulletSpeed
        /\ ents[a] \in {Asteroid(window, d) : d \in AsteroidDraws}

(***************************************************************************)
(* SpecFlight: one flight of an entity with the remove policy, from its    *)
(* spawn by asteroid_spawn_system or by weapon_system to its despawn.  A   *)
(* frame has up to MaxTicks physics ticks and one run of the "wrap" set,   *)
(* at the end of which the stage applies the commands.                     *)
(***************************************************************************)
FlightHalf == 8
MaxTicks == 2
MaxFlightTicks == 12
FlightWindow == <<2 * FlightHalf, 2 * FlightHalf>>
FlightCoords == {-FlightHalf, -5, -1, 0, 2, 4, 6, FlightHalf - 1}
FlightRadii == {5, 6}
FlightSpeeds == {5, 10, 13}

\* The draws of the spawner's random numbers for which the grid holds the
\* velocity exactly: the direction from the spawn position to the target
\* is along an axis or along a Pythagorean triple.
FlightDraws ==
    {d \in [x : FlightCoords, y : FlightCoords, r : FlightRadii, vertical : BOOLEAN,
            tx : FlightCoords, ty : FlightCoords, speed : FlightSpeeds] :
        length_squared(Asteroid(FlightWindow, d).vel) = d.speed * d.speed}

\* The ship before the flight: anywhere, facing any way, weapon about to
\* complete its cooldown.
FlightShips ==
    {[Ship EXCEPT !.pos = p, !.rot = q, !.timer.elapsed = WeaponCooldown - 1,
                  !.drawn = <<p[1], p[2], q>>] :
        p \in {Vec2(0, 0), Vec2(FlightHalf - 1, -FlightHalf), Vec2(-3, FlightHalf + 2)},
        q \in 0..3}

FlightInit ==
    /\ ents \in {(ShipId :> sh) : sh \in FlightShips}
    /\ cmds = <<>>
    /\ hits = NoEvents
    /\ window = FlightWindow
    /\ keys = {}
    /\ delta = 0
    /\ acc = [physics |-> 0, spawn |-> 0]
    /\ toRun = {}
    /\ done = {}
    /\ pass = 0
    /\ ran = {}
    /\ frame = 0
    /\ thrusts = 0
    /\ fired = 0
    /\ clock = 0
    /\ held = TRUE
    /\ longest = 0
    /\ before = ents
    /\ phase = "spawn"

\* One invocation of the spawner: gen_bool(1/3) is false, or an asteroid is
\* queued.
FlightSpawn ==
    /\ phase = "spawn"
    /\ \/ UNCHANGED cmds
       \/ \E d \in FlightDraws : cmds' = asteroid_spawn_system(window, d, ents, cmds)
    /\ phase' = "spawned"
    /\ UNCHANGED <<ents, hits, window, schedVars, weaponHist, before>>

\* A frame with the fire key down in which the weapon's timer completes.
FlightFire ==
    /\ phase = "spawn"
    /\ keys' = {"Space"}
    /\ delta' = 1
    /\ LET armed == weapon_control_system(keys', ents)
       IN  /\ ents' = weapon_system_tick(delta', armed)
           /\ cmds' = weapon_system_fire(delta', armed, cmds)
    /\ fired' = fired + 1
    /\ phase' = "fired"
    /\ UNCHANGED <<hits, window, acc, toRun, done, pass, ran, frame, thrusts,
                   clock, held, longest, before>>

\* The end of the stage: the spawned entity enters the World.
FlightApply ==
    /\ phase \in {"spawned", "fired"}
    /\ ents' = ApplyCommands(ents, cmds)
    /\ cmds' = <<>>
    /\ before' = ents'
    /\ phase' = "fly"
    /\ UNCHANGED <<hits, window, schedVars, weaponHist>>

Flying == Query(ents, {"Spatial", "BoundaryRemoval"})

\* One physics tick: damping and clamp in either order, then movement.
FlightTick ==
    /\ phase = "fly"
    /\ Flying # {}
    /\ pass < MaxTicks
    /\ clock < MaxFlightTicks
    /\ \E dampingFirst \in BOOLEAN :
          ents' = IF dampingFirst
                  THEN movement_system(speed_limit_system(damping_system(ents)))
                  ELSE movement_system(damping_system(speed_limit_system(ents)))
    /\ pass' = pass + 1
    /\ clock' = clock + 1
    /\ UNCHANGED <<cmds, hits, window, keys, delta, acc, toRun, done, ran, frame,
                   thrusts, fired, held, longest, before, phase>>

\* The "wrap" set of a frame and the end of its stage: both boundary
\* systems run, then the despawns take effect.
FlightBoundary ==
    /\ phase = "fly"
    /\ Flying # {}
    /\ ents' = ApplyCommands(boundary_wrap_system(window, ents),
                             boundary_remove_system(window, ents, cmds))
    /\ pass' = 0
    /\ UNCHANGED <<cmds, hits, window, keys, delta, acc, toRun, done, ran, frame,
                   thrusts, weaponHist, before, phase>>

FlightNext ==
    \/ FlightSpawn
    \/ FlightFire
    \/ FlightApply
    \/ FlightTick
    \/ FlightBoundary

SpecFlight == FlightInit /\ [][FlightNext]_vars

\* Physics ticks and boundary steps keep running.
SpecFlightFair ==
    /\ FlightInit
    /\ [][FlightNext]_vars
    /\ WF_vars(FlightApply)
    /\ WF_vars(FlightTick)
    /\ WF_vars(FlightBoundary)

\* The entity e was placed off-screen: on one axis (the axis it was projected
\* to) its centre is at the half-extent plus twice its radius from the
\* middle, so that its disc does not meet the viewport, and on the other
\* axis its centre is within the half-extent.
OffScreen(e) ==
    \/ /\ Abs(e.pos[2]) = HalfHeight + 2 * e.radius
       /\ Abs(e.pos[2]) - e.radius > HalfHeight
       /\ Abs(e.pos[1]) <= HalfWidth
    \/ /\ Abs(e.pos[1]) = HalfWidth + 2 * e.radius
       /\ Abs(e.pos[1]) - e.radius > HalfWidth
       /\ Abs(e.pos[2]) <= HalfHeight

\* C13: an invocation of the spawner creates no hazard or exactly one, and a
\* created hazard starts off-screen (twice its radius beyond the edge on the
\* axis it was projected to, within the half-extent on the other axis) and
\* carries the remove policy.
C13_SpawnsOneOffScreen ==
    phase = "spawned" =>
        /\ Len(cmds) <= 1
        /\ \A i \in DOMAIN cmds :
              /\ cmds[i].op = "spawn"
              /\ cmds[i].id \notin DOMAIN ents
              /\ OffScreen(cmds[i].entity)
              /\ Policies(cmds[i].entity) = {"BoundaryRemoval"}

\* A hazard was queued above the top edge, its x at the left edge of the
\* viewport.
C13_Witness ==
    /\ phase = "spawned"
    /\ Len(cmds) = 1
    /\ cmds[1].entity.pos[1] = -HalfWidth
    /\ cmds[1].entity.pos[2] = HalfHeight + 2 * cmds[1].entity.radius

\* The hazards in flight: what the spawner's command brought into the World.
Hazards ==
    IF phase = "fly" /\ fired = 0
    THEN {id \in DOMAIN before : HasPolicy(before[id], "BoundaryRemoval")}
    ELSE {}

\* The axis a hazard was projected to, the side of it, and the other axis.
ProjAxis(e) == IF Abs(e.pos[1]) > HalfWidth THEN 1 ELSE 2
OtherAxis(e) == 3 - ProjAxis(e)
Side(e) == IF e.pos[ProjAxis(e)] > 0 THEN 1 ELSE -1
HalfOf(axis) == Half(window[axis])

\* The hazard id is in the World es and has not reached the viewport: on the
\* axis it was projected to, its centre is still beyond the edge it was
\* spawned at.
Approaching(es, id) ==
    /\ id \in DOMAIN es
    /\ es[id].pos[ProjAxis(before[id])] * Side(before[id]) > HalfOf(ProjAxis(before[id]))

\* C18: a freshly spawned hazard is not destroyed by boundary-remove before
\* it has reached the viewport: at spawn it sits exactly on the removal
\* threshold and does not satisfy the remove condition; until it reaches
\* the viewport no step removes it, every physics tick moves it strictly
\* inward on the axis it was projected to, and its coordinate on the other
\* axis stays within the half-extent.
C18_HazardReachesViewport ==
    /\ [](\A id \in Hazards :
             /\ ~remove_condition(window, before[id])
             /\ Abs(before[id].pos[ProjAxis(before[id])]) - 2 * before[id].radius
                    = HalfOf(ProjAxis(before[id]))
             /\ Approaching(ents, id) =>
                    Abs(ents[id].pos[OtherAxis(before[id])]) <= HalfOf(OtherAxis(before[id])))
    /\ [][\A id \in Hazards :
             Approaching(ents, id) =>
                 /\ id \in DOMAIN ents'
                 /\ clock' # clock =>
                        ents'[id].pos[ProjAxis(before[id])] * Side(before[id])
                            < ents[id].pos[ProjAxis(before[id])] * Side(before[id])]_vars

\* A hazard flying on a diagonal has been moved by a tick, a boundary step
\* has run since, and it is still short of the viewport.
C18_Witness ==
    \E id \in Hazards :
        /\ Approaching(ents, id)
        /\ clock >= 1
        /\ pass = 0
        /\ ents[id].pos # before[id].pos
        /\ ents[id].vel[1] # 0
        /\ ents[id].vel[2] # 0

\* C19: every entity with the remove policy (projectile or hazard) is
\* eventually destroyed, provided physics ticks and boundary steps keep
\* running and the viewport is fixed: it has a non-zero velocity and no
\* damping, speed limit or thrust, its velocity never changes, a boundary
\* step never moves it (it is not wrapped back), and in the end it is
\* despawned.
C19_RemoveEntitiesAreDestroyed ==
    /\ [](\A id \in Flying :
             /\ ents[id].vel # Vec2(0, 0)
             /\ ents[id].comps \cap {"Damping", "SpeedLimit", "ThrustEngine", "BoundaryWrap"} = {})
    /\ [][\A id \in Flying \cap DOMAIN ents' :
             /\ ents'[id].vel = ents[id].vel
             /\ ents'[id].pos = IF clock' # clock
                                THEN VAdd(ents[id].pos, VScale(ents[id].vel, TimeStep))
                                ELSE ents[id].pos]_vars
    /\ (Flying # {}) ~> (Flying = {})

\* A hazard has flown for at least four ticks, across the viewport, and is
\* gone.
C19_Witness ==
    /\ phase = "fly"
    /\ fired = 0
    /\ clock >= 4
    /\ \E id \in DOMAIN before :
          /\ HasPolicy(before[id], "BoundaryRemoval")
          /\ id \notin DOMAIN ents

(***************************************************************************)
(* SpecIncomplete: the detector and movement_system run over a World in    *)
(* which an entity may lack a component the system's query asks for.      *)
(***************************************************************************)
IncompleteIds == {1, 2}
IncompleteComps ==
    {{"Collidable", "A", "Spatial"}, {"Collidable", "B", "Spatial"},
     {"Collidable", "A"}, {"Collidable", "B"},
     {"Spatial", "Velocity"}, {"Velocity"}}

IncompleteEntity(comps, p, v) ==
    [Blank EXCEPT !.comps = comps,
                  !.pos = IF "Spatial" \in comps THEN p ELSE Vec2(0, 0),
                  !.radius = IF "Spatial" \in comps THEN 1 ELSE 0,
                  !.vel = IF "Velocity" \in comps THEN v ELSE Vec2(0, 0)]

IncompleteInit ==
    /\ ents \in [IncompleteIds ->
                    {IncompleteEntity(c, p, v) :
                        c \in IncompleteComps,
                        p \in {Vec2(0, 0), Vec2(1, 0)},
                        v \in {Vec2(1, 0), Vec2(0, -1)}}]
    /\ cmds = <<>>
    /\ hits = NoEvents
    /\ window = <<0, 0>>
    /\ keys = {}
    /\ delta = 0
    /\ acc = [physics |-> 0, spawn |-> 0]
    /\ toRun = {}
    /\ done = {}
    /\ pass = 0
    /\ ran = {}
    /\ frame = 0
    /\ thrusts = 0
    /\ fired = 0
    /\ clock = 0
    /\ held = TRUE
    /\ longest = 0
    /\ before = ents
    /\ phase = "systems"

\* movement_system runs to its end; there is no failing path in it.
IncompleteMovement ==
    /\ phase = "systems"
    /\ "movement_system" \notin ran
    /\ ents' = movement_system(ents)
    /\ ran' = ran \cup {"movement_system"}
    /\ UNCHANGED <<cmds, hits, window, keys, delta, acc, toRun, done, pass, frame,
                   thrusts, weaponHist, before, phase>>

\* collision_system runs to its end; there is no failing path in it.
IncompleteCollision ==
    /\ phase = "systems"
    /\ "collision_system" \notin ran
    /\ hits' = collision_system(hits, ents)
    /\ ran' = ran \cup {"collision_system"}
    /\ UNCHANGED <<ents, cmds, window, keys, delta, acc, toRun, done, pass, frame,
                   thrusts, weaponHist, before, phase>>

IncompleteNext ==
    \/ IncompleteMovement
    \/ IncompleteCollision

SpecIncomplete == IncompleteInit /\ [][IncompleteNext]_vars

\* An entity that a system's query expects to be whole and is not: tagged
\* Collidable and a category but without position and radius, or with a
\* velocity but without position.
Incomplete(e) ==
    \/ /\ "Collidable" \in e.comps
       /\ e.comps \cap {"A", "B"} # {}
       /\ "Spatial" \notin e.comps
    \/ /\ "Velocity" \in e.comps
       /\ "Spatial" \notin e.comps

\* The system that is to process an incomplete entity.
Processes(e) ==
    (IF "Collidable" \in e.comps THEN {"collision_system"} ELSE {})
        \cup (IF "Velocity" \in e.comps THEN {"movement_system"} ELSE {})

\* C14: an entity that is missing an expected component makes the system
\* that processes it fail (panic) instead of skipping it: no system whose
\* query the entity is tagged for completes a run over a World that holds
\* such an entity.
C14_IncompleteEntityPanics ==
    \A id \in DOMAIN ents :
        Incomplete(ents[id]) => Processes(ents[id]) \cap ran = {}

\* The system that runs in a step of the frame (none when a frame begins or
\* a pass ends), and the systems that may queue a command.
Started == done' \ done
Populating == {"asteroid_spawn_system", "weapon_system", "boundary_remove_system"}
Queued(op) == {cmds[i].id : i \in {j \in DOMAIN cmds : cmds[j].op = op}}

\* C15: the entity population changes only through the spawner (one hazard),
\* weapon fire (one projectile) and boundary-remove (entities with the remove
\* policy): only these three queue a command, the World gains and loses
\* exactly the entities of the queued commands when the stage applies them,
\* no other system creates or destroys an entity, and the collision detector
\* changes no entity state at all and sends no event when a category is empty.
C15_PopulationChangesOnlyByThree ==
    [][/\ cmds' # cmds =>
            \/ /\ Started = {} /\ cmds' = <<>>
            \/ /\ Started # {} /\ Started \subseteq Populating
               /\ Len(cmds') >= Len(cmds)
               /\ SubSeq(cmds', 1, Len(cmds)) = cmds
               /\ \A i \in (Len(cmds) + 1)..Len(cmds') :
                     IF Started = {"boundary_remove_system"}
                     THEN /\ cmds'[i].op = "despawn"
                          /\ cmds'[i].id \in Query(ents, {"Spatial", "BoundaryRemoval"})
                     ELSE /\ cmds'[i].op = "spawn"
                          /\ Len(cmds') = Len(cmds) + 1
                          /\ cmds'[i].id \notin DOMAIN ents
       /\ DOMAIN ents' # DOMAIN ents =>
            /\ Started = {}
            /\ DOMAIN ents' = (DOMAIN ents \ Queued("despawn")) \cup Queued("spawn")
       /\ Started = {"collision_system"} =>
            /\ UNCHANGED <<ents, cmds>>
            /\ (Query(ents, HittableQuery) = {} \/ Query(ents, HurtableQuery) = {})
                  => hits' = hits]_vars

\* A frame has ended in which the detector reported a pair, one of the pair
\* was then destroyed by boundary-remove, and a projectile was added by the
\* weapon.
C15_Witness ==
    /\ pass = 0
    /\ \E i \in DOMAIN hits.cur : hittable(hits.cur[i]) \notin DOMAIN ents
    /\ \E s \in DOMAIN ents, b \in DOMAIN ents :
          /\ IsShip(ents[s])
          /\ ents[b].comps = Bullet(ents[s]).comps
          /\ length_squared(ents[b].vel) = BulletSpeed * BulletSpeed

\* Where the wrap policy puts a coordinate: beyond the bound by more than
\* twice the radius, it goes to the opposite bound less (plus) the same
\* margin; else it stays.
Teleported(p, r, half) ==
    CASE p > half + 2 * r -> -(half + 2 * r)
      [] p < -(half + 2 * r) -> half + 2 * r
      [] OTHER -> p

\* C16: boundary wrap is a teleport, independent per axis: once the wrap
\* system has run, each coordinate of a wrap-policy entity whose own wrap
\* condition held is at the opposite edge offset by the 2 x radius margin,
\* each other coordinate is what it was, and velocity, rotation, radius and
\* every other field are what they were.
C16_WrapTeleportsPerAxis ==
    "boundary_wrap_system" \in done =>
        \A id \in DOMAIN before :
            HasPolicy(before[id], "BoundaryWrap") =>
                /\ id \in DOMAIN ents
                /\ ents[id] =
                     [before[id] EXCEPT
                        !.pos = Vec2(Teleported(before[id].pos[1], before[id].radius, HalfWidth),
                                     Teleported(before[id].pos[2], before[id].radius, HalfHeight))]

\* A moving entity past the right margin, off the middle in y, was put at
\* the left edge with its y and its velocity as they were.
C16_Witness ==
    /\ "boundary_wrap_system" \in done
    /\ \E id \in DOMAIN before :
          /\ HasPolicy(before[id], "BoundaryWrap")
          /\ before[id].pos[1] > HalfWidth + 2 * before[id].radius
          /\ before[id].pos[2] = HalfHeight - before[id].radius
          /\ ents[id].pos = Vec2(-HalfWidth - 2 * before[id].radius, before[id].pos[2])
          /\ ents[id].vel = before[id].vel
          /\ ents[id].vel # Vec2(0, 0)

\* C20: boundary wrap is confining and idempotent: once the wrap system has
\* run, a wrap-policy entity is within half-width + 2 x radius in x and
\* half-height + 2 x radius in y, and another run with no movement in
\* between changes nothing (an entity just wrapped to one edge is not
\* wrapped back to the other: in every later round it is where the first
\* run put it); a wrap-policy entity is never destroyed.
C20_WrapConfinesOnce ==
    \A id \in DOMAIN before :
        HasPolicy(before[id], "BoundaryWrap") =>
            /\ id \in DOMAIN ents
            /\ "boundary_wrap_system" \in done =>
                  /\ Abs(ents[id].pos[1]) <= HalfWidth + 2 * ents[id].radius
                  /\ Abs(ents[id].pos[2]) <= HalfHeight + 2 * ents[id].radius
                  /\ boundary_wrap_system(window, ents) = ents
            /\ frame >= 1 =>
                  ents[id] = boundary_wrap_system(window, before)[id]

\* An entity wrapped from beyond the right margin to the left edge in the
\* first round is still there after the wrap system ran again.
C20_Witness ==
    /\ frame >= 1
    /\ "boundary_wrap_system" \in done
    /\ \E id \in DOMAIN before :
          /\ HasPolicy(before[id], "BoundaryWrap")
          /\ before[id].pos[1] > HalfWidth + 2 * before[id].radius
          /\ ents[id].pos[1] = -HalfWidth - 2 * before[id].radius

\* C17: self-pairing is not excluded: on every run of the detector, an
\* entity that is Collidable and carries both category tags gives one
\* HitEvent whose hittable and hurtable are that entity if its bounding
\* radius is positive (distance 0 < 2 x radius), and none if its radius is 0.
C17_SelfHit ==
    phase = "ran" =>
        \A a \in DOMAIN ents :
            (Tagged(a, "A") /\ Tagged(a, "B")) =>
                Count(hits.cur, HitEvent(a, a)) = IF ents[a].radius > 0 THEN 1 ELSE 0

\* Of two entities with both tags at the same place, the one with a positive
\* radius hit itself in this run and in the run before, the one with radius
\* 0 did not.
C17_Witness ==
    /\ phase = "ran"
    /\ \E a \in DOMAIN ents, b \in DOMAIN ents :
          /\ Tagged(a, "A") /\ Tagged(a, "B") /\ ents[a].radius > 0
          /\ Tagged(b, "A") /\ Tagged(b, "B") /\ ents[b].radius = 0
          /\ HitEvent(a, a) \in Range(hits.cur)
          /\ HitEvent(a, a) \in Range(hits.prev)
          /\ HitEvent(b, b) \notin Range(hits.cur)

====
